---- MODULE Spec2Model ----
(***************************************************************************)
(* LEB128 codec (src/src/lib.rs): signed and unsigned encode, decode with  *)
(* overflow check and sign extension, from_bytes / all_from_bytes framing. *)
(*                                                                         *)
(* A byte (u8) is an integer 0..255.  A machine integer of width w is the  *)
(* set of the positions (0 = least significant) of its one bits, so that   *)
(* all four widths 8, 16, 32 and 64 keep their exact two's-complement bit  *)
(* patterns: x | y is a union, a shift moves positions and drops those     *)
(* that leave 0..w-1.                                                      *)
(*                                                                         *)
(* The library keeps no state of its own.  The state is that of a client   *)
(* which obtains a value from one of the constructors (encode, from_bytes, *)
(* all_from_bytes), converts it between its owned and borrowed forms, and  *)
(* ends by decoding it or asking its byte count; a panic ends the client.  *)
(***************************************************************************)
EXTENDS Integers, Sequences, FiniteSets

VARIABLES overflow_checks, pc, origin, leb, src, input, ints, vec, ret, byte_count

vars == <<overflow_checks, pc, origin, leb, src, input, ints, vec, ret, byte_count>>

----------------------------------------------------------------------------
(* Bounds of the explored inputs.                                          *)

\* longest arbitrary byte buffer handed to from_bytes / all_from_bytes
MaxLen == 4
\* longest single encoding (continuation run plus terminator) that is decoded
MaxRun == 11
\* most integers encoded into one buffer for all_from_bytes
MaxVals == 2

----------------------------------------------------------------------------
(* Machine arithmetic.                                                     *)

RECURSIVE Pow2(_)
Pow2(n) == IF n = 0 THEN 1 ELSE 2 * Pow2(n - 1)

\* the one bits of the integer n, 0 <= n < 2^31, as positions below w
BitsOf(n, w) == {i \in 0..((IF w < 31 THEN w ELSE 31) - 1) : (n \div Pow2(i)) % 2 = 1}

\* the one bits of the byte b; also `b as t` for any wider type t
ByteBits(b) == {i \in 0..7 : (b \div Pow2(i)) % 2 = 1}

\* `x as u8`: the low eight bits, as a number
AsU8(x) ==
    LET bit(i) == IF i \in x THEN Pow2(i) ELSE 0
    IN bit(0) + bit(1) + bit(2) + bit(3) + bit(4) + bit(5) + bit(6) + bit(7)

\* x << s at width w, for an in-range shift amount
Shl(x, s, w) == {i + s : i \in x} \cap (0..(w - 1))

\* x >> s at width w: arithmetic for a signed type, logical for an unsigned one
Shr(x, s, w, signed) ==
    {i - s : i \in {j \in x : j >= s}}
        \cup (IF signed /\ (w - 1) \in x THEN (w - s)..(w - 1) ELSE {})

\* `x as t` from a signed type of width from to a type of width to
CastSigned(x, from, to) ==
    IF to <= from THEN x \cap (0..(to - 1))
    ELSE x \cup (IF (from - 1) \in x THEN from..(to - 1) ELSE {})

\* x.wrapping_neg() at width w: keep up to the lowest one bit, flip above it
WrappingNeg(x, w) ==
    IF x = {} THEN {}
    ELSE LET low == CHOOSE i \in x : \A j \in x : i <= j
         IN {low} \cup {i \in (low + 1)..(w - 1) : i \notin x}

\* std::intrinsics::ctlz on a u8
Ctlz8(b) == CHOOSE n \in 0..8 : b < Pow2(8 - n) /\ (n = 8 \/ b >= Pow2(7 - n))

Zero == {}
MinusOne(w) == 0..(w - 1)

\* `b | 0b1000_0000` and `!b` on a u8
OrHigh(b) == IF b >= 128 THEN b ELSE b + 128
NotU8(b) == 255 - b

----------------------------------------------------------------------------
(* Encoding (impl_encode_signed, impl_encode_unsigned).                    *)

\* variant of SignedDone that stops on an exhausted remainder alone, without
\* comparing it with the sign bit of the group just taken
SignedDoneNoSignBit(self, byte, w) == self = Zero \/ self = MinusOne(w)

\* the signed loop's exit test on the shifted remainder and the 7-bit group
SignedDone(self, byte, w) ==
    \/ self = Zero /\ (byte \div 64) % 2 = 0
    \/ self = MinusOne(w) /\ (byte \div 64) % 2 # 0

RECURSIVE EncodeSignedLoop(_, _, _)
EncodeSignedLoop(self, w, result) ==
    LET byte == AsU8(self) % 128
        rest == Shr(self, 7, w, TRUE)
    IN IF SignedDone(rest, byte, w)
       THEN Append(result, byte)
       ELSE EncodeSignedLoop(rest, w, Append(result, OrHigh(byte)))

EncodeSigned(v, w) == EncodeSignedLoop(v, w, <<>>)

\* the unsigned loop's continuation test on the shifted remainder
UnsignedMore(self) == self # Zero

\* variant of EncodeUnsignedLoop that tests the value before shifting it
RECURSIVE EncodeUnsignedLoopEarlyTest(_, _, _)
EncodeUnsignedLoopEarlyTest(self, w, result) ==
    LET byte == AsU8(self) % 128
        rest == Shr(self, 7, w, FALSE)
    IN IF UnsignedMore(self)
       THEN EncodeUnsignedLoopEarlyTest(rest, w, Append(result, OrHigh(byte)))
       ELSE Append(result, byte)

RECURSIVE EncodeUnsignedLoop(_, _, _)
EncodeUnsignedLoop(self, w, result) ==
    LET byte == AsU8(self) % 128
        rest == Shr(self, 7, w, FALSE)
    IN IF UnsignedMore(rest)
       THEN EncodeUnsignedLoop(rest, w, Append(result, OrHigh(byte)))
       ELSE Append(result, byte)

EncodeUnsigned(v, w) == EncodeUnsignedLoop(v, w, <<>>)

Encode(signed, v, w) == IF signed THEN EncodeSigned(v, w) ELSE EncodeUnsigned(v, w)

----------------------------------------------------------------------------
(* Decoding (decode_signed, decode_unsigned).  A decode yields a record    *)
(* [panic, v]; v is meaningful only when panic is FALSE.                   *)

Panicked == [panic |-> TRUE, v |-> {}]
Returned(x) == [panic |-> FALSE, v |-> x]

\* `x << shift` on a type of width w: with overflow checks a shift amount
\* >= w panics, without them the amount is masked to w - 1
ShiftPanics(shift, w, checks) == checks /\ shift >= w
ShiftAmount(shift, w) == shift % w

\* one 7-bit group OR-ed into the result at the current shift
Accumulated(result, byte, shift, w) ==
    result \cup Shl(ByteBits(byte % 128), ShiftAmount(shift, w), w)

\* the loop over the bytes, from byte i on, up to the first byte with bit 7 clear
RECURSIVE AccumulateFrom(_, _, _, _, _, _)
AccumulateFrom(bytes, i, result, shift, w, checks) ==
    IF i > Len(bytes)
    THEN [panic |-> FALSE, result |-> result, shift |-> shift]
    ELSE IF ShiftPanics(shift, w, checks)
    THEN [panic |-> TRUE, result |-> result, shift |-> shift]
    ELSE IF bytes[i] < 128
    THEN [panic |-> FALSE, result |-> Accumulated(result, bytes[i], shift, w),
          shift |-> shift + 7]
    ELSE AccumulateFrom(bytes, i + 1, Accumulated(result, bytes[i], shift, w),
                        shift + 7, w, checks)

\* variants of UnsignedSize with the bit count off by one either way
UnsignedSizeOneMore(shift, last_byte) == shift + 2 - Ctlz8(last_byte)
UnsignedSizeOneLess(shift, last_byte) == shift - Ctlz8(last_byte)

\* the bit count the unsigned overflow assertion compares with the width
UnsignedSize(shift, last_byte) == shift + 1 - Ctlz8(last_byte)

DecodeUnsigned(bytes, w, checks) ==
    LET acc == AccumulateFrom(bytes, 1, Zero, 0, w, checks)
    IN IF acc.panic \/ Len(bytes) = 0 THEN Panicked
       ELSE IF UnsignedSize(acc.shift, bytes[Len(bytes)]) <= w
       THEN Returned(acc.result)
       ELSE Panicked

\* the bit count the signed overflow assertion compares with the width
SignedSize(shift, last_byte) ==
    IF (last_byte \div 64) % 2 = 0
    THEN shift + 1 - Ctlz8(last_byte)
    ELSE shift + 2 - Ctlz8(NotU8(OrHigh(last_byte)))

\* whether the sign-extension branch is taken
Extends(shift, last_byte, w) == shift < w /\ (last_byte \div 64) % 2 # 0

\* `((1 << shift) as t).wrapping_neg()`: the literal 1 is an i32, so the
\* shift is a 32-bit shift whatever the width of t
IntLiteralBits == 32
ExtensionMask(shift, w) ==
    WrappingNeg(CastSigned(Shl({0}, ShiftAmount(shift, IntLiteralBits), IntLiteralBits),
                           IntLiteralBits, w), w)

DecodeSigned(bytes, w, checks) ==
    LET acc == AccumulateFrom(bytes, 1, Zero, 0, w, checks)
    IN IF acc.panic \/ Len(bytes) = 0 THEN Panicked
       ELSE LET last_byte == bytes[Len(bytes)]
            IN IF SignedSize(acc.shift, last_byte) > w THEN Panicked
               ELSE IF ~Extends(acc.shift, last_byte, w) THEN Returned(acc.result)
               ELSE IF ShiftPanics(acc.shift, IntLiteralBits, checks) THEN Panicked
               ELSE Returned(acc.result \cup ExtensionMask(acc.shift, w))

----------------------------------------------------------------------------
(* Framing (leb_ref_impl).                                                 *)

NoBytes == [panic |-> TRUE, bytes |-> <<>>]

\* variants of FromBytesScan: one returns the whole input once a final byte
\* is found, one leaves the final byte out of the view
RECURSIVE FromBytesScanWhole(_, _)
FromBytesScanWhole(bytes, count) ==
    IF count = Len(bytes) THEN NoBytes
    ELSE IF bytes[count + 1] < 128
    THEN [panic |-> FALSE, bytes |-> bytes]
    ELSE FromBytesScanWhole(bytes, count + 1)

RECURSIVE FromBytesScanShort(_, _)
FromBytesScanShort(bytes, count) ==
    IF count = Len(bytes) THEN NoBytes
    ELSE IF bytes[count + 1] < 128
    THEN [panic |-> FALSE, bytes |-> SubSeq(bytes, 1, count)]
    ELSE FromBytesScanShort(bytes, count + 1)

\* from_bytes, with count bytes already scanned
RECURSIVE FromBytesScan(_, _)
FromBytesScan(bytes, count) ==
    IF count = Len(bytes) THEN NoBytes
    ELSE IF bytes[count + 1] < 128
    THEN [panic |-> FALSE, bytes |-> SubSeq(bytes, 1, count + 1)]
    ELSE FromBytesScan(bytes, count + 1)

FromBytesOf(bytes) == FromBytesScan(bytes, 0)

\* variant of AllConsumed with the assertion left out
AllConsumedAlways(start, end) == TRUE

\* the closing assertion of all_from_bytes
AllConsumed(start, end) == start = end

\* variant of AllFromBytesScan that takes each view before counting the
\* byte that ends it
RECURSIVE AllFromBytesScanShortViews(_, _, _, _)
AllFromBytesScanShortViews(bytes, start, end, result) ==
    IF end = Len(bytes)
    THEN IF AllConsumed(start, end)
         THEN [panic |-> FALSE, views |-> result]
         ELSE [panic |-> TRUE, views |-> <<>>]
    ELSE IF bytes[end + 1] < 128
    THEN AllFromBytesScanShortViews(bytes, end + 1, end + 1,
                                    Append(result, [start |-> start, end |-> end]))
    ELSE AllFromBytesScanShortViews(bytes, start, end + 1, result)

\* all_from_bytes, with end bytes already scanned and start the first byte
\* of the value being read (both counted from 0, as in the source); each
\* view is kept as the range start..end of `&bytes[start..end]`
RECURSIVE AllFromBytesScan(_, _, _, _)
AllFromBytesScan(bytes, start, end, result) ==
    IF end = Len(bytes)
    THEN IF AllConsumed(start, end)
         THEN [panic |-> FALSE, views |-> result]
         ELSE [panic |-> TRUE, views |-> <<>>]
    ELSE IF bytes[end + 1] < 128
    THEN AllFromBytesScan(bytes, end + 1, end + 1,
                          Append(result, [start |-> start, end |-> end + 1]))
    ELSE AllFromBytesScan(bytes, start, end + 1, result)

AllFromBytesOf(bytes) == AllFromBytesScan(bytes, 0, 0, <<>>)

----------------------------------------------------------------------------
(* The inputs the client draws from.                                       *)

\* the native widths the decode and encode macros are instantiated at
\* (isize and usize are the 64-bit instances)
Widths == {8, 16, 32, 64}

\* the integer n, |n| < 2^31, as a machine integer of width w
FromInt(n, w) == IF n >= 0 THEN BitsOf(n, w) ELSE MinusOne(w) \ BitsOf(-n - 1, w)

\* Integers of width w by shape: bits k and above all equal the sign bit s,
\* bit k-1 differs from it, and the bits below follow one of three fills.
\* Every minimal bit length of either sign occurs, with both extremes.
Shaped(w, s, k, fill) ==
    {i \in 0..(w - 1) :
        IF i >= k THEN s = 1
        ELSE IF i = k - 1 THEN s = 0
        ELSE CASE fill = "same" -> s = 1
               [] fill = "other" -> s = 0
               [] OTHER -> i % 2 = 0}

Landmarks == {-129, -128, -127, -65, -64, -63, -2, -1, 0, 1, 2, 42, 63, 64, 65,
              126, 127, 128, 129, 255, 256, 16383, 16384, 624485}

SignedInts(w) ==
    {Shaped(w, s, k, fill) : s \in {0, 1}, k \in 0..(w - 1), fill \in {"same", "other", "alt"}}
        \cup {FromInt(n, w) : n \in {m \in Landmarks : w >= 32 \/ (-Pow2(w - 1) <= m /\ m < Pow2(w - 1))}}

UnsignedInts(w) ==
    {Shaped(w, s, k, fill) : s \in {0, 1}, k \in 0..(w - 1), fill \in {"same", "other", "alt"}}
        \cup {FromInt(n, w) : n \in {m \in Landmarks : 0 <= m /\ (w >= 32 \/ m < Pow2(w))}}

IntsOf(signed, w) == IF signed THEN SignedInts(w) ELSE UnsignedInts(w)

\* arbitrary buffers: every byte string up to MaxLen over a small alphabet
Alphabet == {0, 127, 128, 255}

RECURSIVE SeqsUpTo(_, _)
SeqsUpTo(S, n) ==
    IF n = 0 THEN {<<>>}
    ELSE LET shorter == SeqsUpTo(S, n - 1)
         IN shorter \cup {Append(q, x) : q \in {r \in shorter : Len(r) = n - 1}, x \in S}

ShortBuffers == SeqsUpTo(Alphabet, MaxLen)

\* single encodings of every length up to MaxRun: a run of one continuation
\* byte, then a final byte of every significant length of either sign
Continuations == {128, 255}
Finals == {0, 1, 2, 3, 4, 7, 8, 15, 16, 31, 32, 63,
           64, 95, 96, 111, 112, 119, 120, 123, 124, 125, 126, 127}

Run(c, n, t) == [i \in 1..n |-> IF i < n THEN c ELSE t]

RunBuffers == {Run(c, n, t) : c \in Continuations, n \in 1..MaxRun, t \in Finals}

Buffers == ShortBuffers \cup RunBuffers

\* integer lists whose encodings are concatenated for all_from_bytes
BatchInts(signed) ==
    {[signed |-> signed, w |-> 32, v |-> FromInt(n, 32)] :
        n \in {m \in {-129, -1, 0, 127, 128, 624485} : signed \/ m >= 0}}

RECURSIVE ConcatEncoded(_)
ConcatEncoded(vs) ==
    IF vs = <<>> THEN <<>>
    ELSE Encode(vs[1].signed, vs[1].v, vs[1].w) \o ConcatEncoded(Tail(vs))

----------------------------------------------------------------------------
(* The client.                                                             *)
(*   overflow_checks  the build: TRUE when arithmetic overflow panics      *)
(*                    (debug), FALSE when shift amounts are masked         *)
(*   pc               "start", "held" (a value or a list is held), "done"  *)
(*                    or "panicked"                                        *)
(*   origin           the constructor the held value came from             *)
(*   leb              the held value: its type and its bytes               *)
(*   src              the integer leb was encoded from (width 0: none)     *)
(*   input            the buffer given to from_bytes / all_from_bytes      *)
(*   ints             the integers whose encodings make up input           *)
(*   vec              the list all_from_bytes returned; each element keeps *)
(*                    the range of input it views (or was copied from)     *)
(*   ret              the width and result of the expect_* call            *)
(*   byte_count       the result of the byte_count call                    *)

Signed(ty) == ty \in {"ILeb128", "ILeb128Owned"}
Owned(ty) == ty \in {"ILeb128Owned", "ULeb128Owned"}
RefTypes == {"ILeb128", "ULeb128"}
Types == {"ILeb128", "ULeb128", "ILeb128Owned", "ULeb128Owned"}
OwnedOf(ty) == IF ty = "ILeb128" THEN "ILeb128Owned" ELSE "ULeb128Owned"
RefOf(ty) == IF ty = "ILeb128Owned" THEN "ILeb128" ELSE "ULeb128"

NoLeb == [ty |-> "none", bytes |-> <<>>]
NoSrc == [signed |-> FALSE, w |-> 0, v |-> {}]
NoRet == [w |-> 0, v |-> {}]

Init ==
    /\ overflow_checks \in BOOLEAN
    /\ pc = "start"
    /\ origin = "none"
    /\ leb = NoLeb
    /\ src = NoSrc
    /\ input = <<>>
    /\ ints = <<>>
    /\ vec = <<>>
    /\ ret = NoRet
    /\ byte_count = 0

\* v.encode() for a signed or unsigned v of width w
EncodeCall(signed, w, v) ==
    /\ pc = "start"
    /\ pc' = "held"
    /\ origin' = "encode"
    /\ leb' = [ty |-> IF signed THEN "ILeb128Owned" ELSE "ULeb128Owned",
               bytes |-> Encode(signed, v, w)]
    /\ src' = [signed |-> signed, w |-> w, v |-> v]
    /\ UNCHANGED <<overflow_checks, input, ints, vec, ret, byte_count>>

\* ty::from_bytes(b); the owned types copy the view they get
FromBytes(ty, b) ==
    /\ pc = "start"
    /\ origin' = "from_bytes"
    /\ input' = b
    /\ LET r == FromBytesOf(b)
       IN /\ pc' = IF r.panic THEN "panicked" ELSE "held"
          /\ leb' = IF r.panic THEN NoLeb ELSE [ty |-> ty, bytes |-> r.bytes]
    /\ UNCHANGED <<overflow_checks, src, ints, vec, ret, byte_count>>

\* ty::all_from_bytes(b), b being the concatenated encodings of vs when the
\* client built it that way (vs is empty for any other buffer)
AllFromBytes(ty, b, vs) ==
    /\ pc = "start"
    /\ origin' = "all_from_bytes"
    /\ input' = b
    /\ ints' = vs
    /\ LET r == AllFromBytesOf(b)
       IN /\ pc' = IF r.panic THEN "panicked" ELSE "held"
          /\ vec' = [i \in 1..Len(r.views) |->
                       [ty |-> ty, start |-> r.views[i].start, end |-> r.views[i].end,
                        bytes |-> SubSeq(b, r.views[i].start + 1, r.views[i].end)]]
    /\ UNCHANGED <<overflow_checks, leb, src, ret, byte_count>>

\* the client takes the i-th value out of the list all_from_bytes returned
Index(i) ==
    /\ pc = "held"
    /\ leb = NoLeb
    /\ i \in 1..Len(vec)
    /\ leb' = [ty |-> vec[i].ty, bytes |-> vec[i].bytes]
    /\ UNCHANGED <<overflow_checks, pc, origin, src, input, ints, vec, ret, byte_count>>

ToOwned ==
    /\ pc = "held"
    /\ leb.ty \in RefTypes
    /\ leb' = [ty |-> OwnedOf(leb.ty), bytes |-> leb.bytes]
    /\ UNCHANGED <<overflow_checks, pc, origin, src, input, ints, vec, ret, byte_count>>

AsRef ==
    /\ pc = "held"
    /\ Owned(leb.ty)
    /\ leb' = [ty |-> RefOf(leb.ty), bytes |-> leb.bytes]
    /\ UNCHANGED <<overflow_checks, pc, origin, src, input, ints, vec, ret, byte_count>>

ByteCount ==
    /\ pc = "held"
    /\ leb.ty \in Types
    /\ pc' = "done"
    /\ byte_count' = Len(leb.bytes)
    /\ UNCHANGED <<overflow_checks, origin, leb, src, input, ints, vec, ret>>

\* expect_i<w> on a signed value, expect_u<w> on an unsigned one; the owned
\* types dispatch to the view over their own bytes
Expect(w) ==
    /\ pc = "held"
    /\ leb.ty \in Types
    /\ LET r == IF Signed(leb.ty)
                THEN DecodeSigned(leb.bytes, w, overflow_checks)
                ELSE DecodeUnsigned(leb.bytes, w, overflow_checks)
       IN /\ pc' = IF r.panic THEN "panicked" ELSE "done"
          /\ ret' = [w |-> w, v |-> r.v]
    /\ UNCHANGED <<overflow_checks, origin, leb, src, input, ints, vec, byte_count>>

Next ==
    \/ /\ pc = "start"
       /\ \E signed \in BOOLEAN, w \in Widths : \E v \in IntsOf(signed, w) :
             EncodeCall(signed, w, v)
    \/ /\ pc = "start"
       /\ \E ty \in Types, b \in Buffers : FromBytes(ty, b)
    \/ /\ pc = "start"
       /\ \E ty \in Types, b \in ShortBuffers : AllFromBytes(ty, b, <<>>)
    \/ /\ pc = "start"
       /\ \E ty \in Types : \E vs \in SeqsUpTo(BatchInts(Signed(ty)), MaxVals) :
             AllFromBytes(ty, ConcatEncoded(vs), vs)
    \/ \E i \in 1..Len(vec) : Index(i)
    \/ ToOwned
    \/ AsRef
    \/ ByteCount
    \/ \E w \in Widths : Expect(w)

Spec == Init /\ [][Next]_vars

----------------------------------------------------------------------------
(* Properties.                                                             *)

\* every byte but the last has bit 7 set, the last has it clear
WellFormed(bytes) ==
    /\ Len(bytes) >= 1
    /\ \A i \in 1..(Len(bytes) - 1) : bytes[i] >= 128
    /\ bytes[Len(bytes)] < 128

\* an expect_* call has been made on the held value (and returned or panicked)
Decoded == ret.w # 0 /\ pc \in {"done", "panicked"}

\* the 7-bit groups of an encoding laid side by side, least significant
\* first: the one bits of the number the encoding denotes, in 0..7n-1
EncodedBits(bytes) ==
    UNION {{7 * (i - 1) + j : j \in ByteBits(bytes[i] % 128)} : i \in 1..Len(bytes)}

\* the two's-complement number of n bits with the one bits `bits` lies in
\* [-2^(w-1), 2^(w-1) - 1]: bits w-1 and above all equal the sign bit n-1
FitsSigned(bits, n, w) ==
    \A p \in (w - 1)..(n - 1) : (p \in bits) <=> ((n - 1) \in bits)

\* C1: decoding the signed encoding of v at v's own width returns v
C1_SignedRoundTrip ==
    (origin = "encode" /\ src.signed /\ Decoded /\ ret.w = src.w)
        => (pc = "done" /\ ret.v = src.v)

\* C2: decoding the unsigned encoding of v at v's own width returns
\* normally, and returns v
C2_UnsignedRoundTrip ==
    (origin = "encode" /\ ~src.signed /\ Decoded /\ ret.w = src.w)
        => (pc = "done" /\ ret.v = src.v)

C2_Witness ==
    /\ origin = "encode" /\ ~src.signed /\ src.w = 64 /\ src.v = MinusOne(64)
    /\ Len(leb.bytes) = 10
    /\ pc = "done" /\ ret.w = 64 /\ ret.v = MinusOne(64)

\* C3: expect_i<w> on a well-formed signed encoding panics whenever the
\* encoded two's-complement value lies outside the range of the width w
C3_SignedOverflowDetected ==
    (Signed(leb.ty) /\ WellFormed(leb.bytes) /\ Decoded
        /\ ~FitsSigned(EncodedBits(leb.bytes), 7 * Len(leb.bytes), ret.w))
        => pc = "panicked"

\* C4: expect_u<w> on a well-formed unsigned encoding panics whenever the
\* encoded number is 2^w or more (has a one bit at w or above), and a normal
\* return is exactly the encoded number; <<128, 2>> panics at width 8 and
\* <<255, 255, 255, 255, 15>> returns 2^32 - 1 at width 32
C4_UnsignedOverflowDetected ==
    (leb.ty \in {"ULeb128", "ULeb128Owned"} /\ WellFormed(leb.bytes) /\ Decoded)
        => /\ (\E p \in EncodedBits(leb.bytes) : p >= ret.w) => pc = "panicked"
           /\ pc = "done" => ret.v = EncodedBits(leb.bytes)
           /\ (leb.bytes = <<128, 2>> /\ ret.w = 8) => pc = "panicked"
           /\ (leb.bytes = <<255, 255, 255, 255, 15>> /\ ret.w = 32)
                 => (pc = "done" /\ ret.v = MinusOne(32))

C4_Witness ==
    /\ leb.ty = "ULeb128" /\ leb.bytes = <<128, 2>>
    /\ ret.w = 8 /\ pc = "panicked"

\* bit p of the width-w integer v sign-extended without limit
SextBit(v, w, p) == IF p < w THEN p \in v ELSE (w - 1) \in v

\* the least n >= 1 with -2^(7n-1) <= v < 2^(7n-1)
MinimalSignedLen(v, w) ==
    CHOOSE n \in 1..((w + 6) \div 7) :
        /\ FitsSigned(v, w, 7 * n)
        /\ \A m \in 1..(n - 1) : ~FitsSigned(v, w, 7 * m)

\* bits 7i..7i+6 of the sign-extended v, as a number
SignedGroup(v, w, i) ==
    LET bit(j) == IF SextBit(v, w, 7 * i + j) THEN Pow2(j) ELSE 0
    IN bit(0) + bit(1) + bit(2) + bit(3) + bit(4) + bit(5) + bit(6)

EncodesTo(n, w, bytes) == src.v = FromInt(n, w) => leb.bytes = bytes

\* C5: the signed encoding of v has the minimal length n, byte i holds bits
\* 7i..7i+6 of the sign-extended v, bit 7 is set on all bytes but the last;
\* 0, -1, 127, -127, -128 and -129 encode as the spec lists them
C5_SignedEncodeMinimal ==
    (origin = "encode" /\ src.signed)
        => LET n == MinimalSignedLen(src.v, src.w)
           IN /\ Len(leb.bytes) = n
              /\ \A i \in 0..(n - 1) :
                    leb.bytes[i + 1] =
                        SignedGroup(src.v, src.w, i) + (IF i < n - 1 THEN 128 ELSE 0)
              /\ EncodesTo(0, src.w, <<0>>)
              /\ EncodesTo(-1, src.w, <<127>>)
              /\ EncodesTo(127, src.w, <<255, 0>>)
              /\ EncodesTo(-127, src.w, <<129, 127>>)
              /\ EncodesTo(-128, src.w, <<128, 127>>)
              /\ src.w >= 16 => EncodesTo(-129, src.w, <<255, 126>>)

C5_Witness ==
    /\ origin = "encode" /\ src.signed /\ src.w = 16 /\ src.v = FromInt(-129, 16)
    /\ leb = [ty |-> "ILeb128Owned", bytes |-> <<255, 126>>]

\* the number of significant bits of the unsigned v
BitLength(v) == IF v = {} THEN 0 ELSE 1 + (CHOOSE i \in v : \A j \in v : j <= i)

\* bits 7i..7i+6 of the unsigned v, as a number
UnsignedGroup(v, i) ==
    LET bit(j) == IF (7 * i + j) \in v THEN Pow2(j) ELSE 0
    IN bit(0) + bit(1) + bit(2) + bit(3) + bit(4) + bit(5) + bit(6)

\* C6: the unsigned encoding of v has max(1, ceil(bit_length(v) / 7)) bytes,
\* byte i holds bits 7i..7i+6 of v, bit 7 is set on all bytes but the last,
\* and a last byte after others is not zero; 0 encodes as <<0>> and 624485
\* as <<229, 142, 38>>
C6_UnsignedEncodeMinimal ==
    (origin = "encode" /\ ~src.signed)
        => LET groups == (BitLength(src.v) + 6) \div 7
               n == IF groups < 1 THEN 1 ELSE groups
           IN /\ Len(leb.bytes) = n
              /\ \A i \in 0..(n - 1) :
                    /\ leb.bytes[i + 1] % 128 = UnsignedGroup(src.v, i)
                    /\ leb.bytes[i + 1] >= 128 <=> i # n - 1
              /\ n > 1 => leb.bytes[n] # 0
              /\ EncodesTo(0, src.w, <<0>>)
              /\ src.w >= 32 => EncodesTo(624485, src.w, <<229, 142, 38>>)

C6_Witness ==
    /\ origin = "encode" /\ ~src.signed /\ src.w = 32 /\ src.v = FromInt(624485, 32)
    /\ leb = [ty |-> "ULeb128Owned", bytes |-> <<229, 142, 38>>]

\* C7: every value held, of any of the four types, and every element of a
\* list from all_from_bytes, is a well-formed encoding; so is every value a
\* decode is applied to
C7_WellFormedValues ==
    /\ leb.ty \in Types => WellFormed(leb.bytes)
    /\ \A i \in 1..Len(vec) : vec[i].ty \in Types /\ WellFormed(vec[i].bytes)
    /\ Decoded => (leb.ty \in Types /\ WellFormed(leb.bytes))

C7_Witness ==
    /\ origin = "all_from_bytes" /\ input = <<128, 0, 255, 127>>
    /\ Len(vec) = 2 /\ vec[1].ty = "ILeb128"
    /\ leb = [ty |-> "ILeb128Owned", bytes |-> <<255, 127>>]
    /\ pc = "held"

\* from_bytes or all_from_bytes itself panicked: nothing was returned
ConstructionPanic == pc = "panicked" /\ leb = NoLeb /\ ret.w = 0

HasFinal(b) == \E i \in 1..Len(b) : b[i] < 128
\* the number of bytes up to and including the first with bit 7 clear
FirstFinal(b) == CHOOSE i \in 1..Len(b) : b[i] < 128 /\ \A j \in 1..(i - 1) : b[j] >= 128

\* C8: from_bytes returns the view up to and including the first byte with
\* bit 7 clear, whose byte_count is that many bytes, and panics when there
\* is no such byte
C8_FromBytesPrefix ==
    origin = "from_bytes"
        => IF HasFinal(input)
           THEN /\ leb.ty \in Types
                /\ leb.bytes = SubSeq(input, 1, FirstFinal(input))
                /\ (pc = "done" /\ ret.w = 0) => byte_count = FirstFinal(input)
           ELSE ConstructionPanic

C8_Witness ==
    /\ origin = "from_bytes" /\ input = <<128, 0, 255>>
    /\ leb.bytes = <<128, 0>>
    /\ pc = "done" /\ byte_count = 2

\* C9: all_from_bytes on the concatenated encodings of k integers returns
\* the k encodings in order; whenever it returns, its views follow one
\* another from the first byte of the input to the last without gap or
\* overlap and each has its only byte with bit 7 clear at its end
C9_AllFromBytesSplits ==
    (origin = "all_from_bytes" /\ ~ConstructionPanic)
        => /\ input = ConcatEncoded(ints)
                 => /\ Len(vec) = Len(ints)
                    /\ \A i \in 1..Len(ints) :
                          vec[i].bytes = Encode(ints[i].signed, ints[i].v, ints[i].w)
           /\ \A i \in 1..Len(vec) :
                 /\ vec[i].start = (IF i = 1 THEN 0 ELSE vec[i - 1].end)
                 /\ vec[i].start < vec[i].end
                 /\ vec[i].bytes = SubSeq(input, vec[i].start + 1, vec[i].end)
                 /\ WellFormed(vec[i].bytes)
           /\ Len(input) = (IF vec = <<>> THEN 0 ELSE vec[Len(vec)].end)
           /\ input = <<127, 128, 1>>
                 => (Len(vec) = 2 /\ vec[1].bytes = <<127>> /\ vec[2].bytes = <<128, 1>>)

C9_Witness ==
    /\ origin = "all_from_bytes" /\ input = <<127, 128, 1>>
    /\ Len(ints) = 2 /\ ints[1].v = FromInt(127, 32) /\ ints[2].v = FromInt(128, 32)
    /\ Len(vec) = 2 /\ vec[2].bytes = <<128, 1>>

\* C10: all_from_bytes panics, returning nothing, exactly when its input is
\* not empty and ends in a byte with bit 7 set
C10_AllFromBytesTrailing ==
    origin = "all_from_bytes"
        => /\ ConstructionPanic <=> (input # <<>> /\ input[Len(input)] >= 128)
           /\ ConstructionPanic => vec = <<>>

C10_Witness ==
    /\ origin = "all_from_bytes" /\ input = <<0, 128>>
    /\ ConstructionPanic /\ vec = <<>>

\* the final byte of a signed encoding has its sign bit (bit 6) set
FinalNegative(bytes) == (bytes[Len(bytes)] \div 64) % 2 # 0

\* C11: when a well-formed signed encoding of n bytes passes the overflow
\* check at width w, expect_i<w> returns; with bit 6 of the final byte set
\* and s = 7n < w the result is the accumulated groups below s and all ones
\* from s to w-1, for every such s; otherwise it is the accumulated groups
\* alone
C11_SignExtension ==
    (Signed(leb.ty) /\ WellFormed(leb.bytes) /\ Decoded
        /\ SignedSize(7 * Len(leb.bytes), leb.bytes[Len(leb.bytes)]) <= ret.w)
        => LET s == 7 * Len(leb.bytes)
               groups == EncodedBits(leb.bytes) \cap (0..(ret.w - 1))
           IN /\ pc = "done"
              /\ ret.v = IF FinalNegative(leb.bytes) /\ s < ret.w
                         THEN groups \cup (s..(ret.w - 1))
                         ELSE groups

\* C12: for every well-formed unsigned encoding, non-minimal ones included,
\* the bit count of the overflow check (7n + 1 - ctlz of the final byte) is
\* the bit length of the encoded number, and expect_u<w> returns whenever
\* that number is below 2^w; <<128, 128, 0>> decodes at width 8
C12_UnsignedSizeExact ==
    (leb.ty \in {"ULeb128", "ULeb128Owned"} /\ WellFormed(leb.bytes) /\ Decoded)
        => /\ UnsignedSize(7 * Len(leb.bytes), leb.bytes[Len(leb.bytes)])
                 = BitLength(EncodedBits(leb.bytes))
           /\ (\A p \in EncodedBits(leb.bytes) : p < ret.w) => pc = "done"
           /\ (leb.bytes = <<128, 128, 0>> /\ ret.w = 8) => (pc = "done" /\ ret.v = Zero)

====
